---- MODULE Spec2Model ----
(***************************************************************************)
(* A model of the resume processing service: the rule-based extraction    *)
(* engine (services/resume_processor.py), the question answering service  *)
(* (services/qa_service.py) and the upload endpoint (main.py).            *)
(*                                                                         *)
(* A Python str is a sequence of one-character strings; a dict is a        *)
(* function whose domain is the set of keys that are present; a list is a *)
(* sequence.  Positions are 1-based here and 0-based in the source.        *)
(***************************************************************************)
EXTENDS Integers, Sequences, FiniteSets, TLC

(***************************************************************************)
(* Characters and the str methods the source uses                          *)
(***************************************************************************)
UpperChars == <<"A","B","C","D","E","F","G","H","I","J","K","L","M",
                "N","O","P","Q","R","S","T","U","V","W","X","Y","Z">>

LowerChars == <<"a","b","c","d","e","f","g","h","i","j","k","l","m",
                "n","o","p","q","r","s","t","u","v","w","x","y","z">>

DigitChars == <<"0","1","2","3","4","5","6","7","8","9">>

IsUpper(c) == \E i \in 1..26 : UpperChars[i] = c

IsLower(c) == \E i \in 1..26 : LowerChars[i] = c

IsDigit(c) == \E i \in 1..10 : DigitChars[i] = c

IsAlpha(c) == IsUpper(c) \/ IsLower(c)

\* str.isspace for the characters of the inputs
IsSpace(c) == c \in {" ", "\n", "\t", "\r"}

\* the regular-expression class \w
IsWordChar(c) == IsAlpha(c) \/ IsDigit(c) \/ c = "_"

LowerChar(c) == IF IsUpper(c) THEN LowerChars[CHOOSE i \in 1..26 : UpperChars[i] = c] ELSE c

UpperChar(c) == IF IsLower(c) THEN UpperChars[CHOOSE i \in 1..26 : LowerChars[i] = c] ELSE c

\* s.lower()
lower(s) == SubSeq([i \in 1..Len(s) |-> LowerChar(s[i])], 1, Len(s))

\* s.title(): a cased character is upper-cased after an uncased one (or at
\* the start) and lower-cased after a cased one
title(s) == [i \in 1..Len(s) |->
               IF i = 1 \/ ~IsAlpha(s[i-1]) THEN UpperChar(s[i]) ELSE LowerChar(s[i])]

\* s[a:b] for 0 <= a, 0 <= b (Python clamps both ends to len(s))
Slice(s, a, b) ==
    LET hi == IF b < Len(s) THEN b ELSE Len(s)
    IN  IF a >= hi THEN <<>> ELSE SubSeq(s, a + 1, hi)

\* sub occurs in s at 1-based position i
OccursAt(sub, s, i) ==
    /\ i + Len(sub) - 1 <= Len(s)
    /\ \A j \in 1..Len(sub) : s[i + j - 1] = sub[j]

\* sub in s
Contains(sub, s) == \E i \in 1..(Len(s) - Len(sub) + 1) : OccursAt(sub, s, i)

\* s.find(sub), 0-based, -1 when absent
find(s, sub) ==
    IF Contains(sub, s)
    THEN (CHOOSE i \in 1..(Len(s) - Len(sub) + 1) :
             /\ OccursAt(sub, s, i)
             /\ \A k \in 1..(i - 1) : ~OccursAt(sub, s, k)) - 1
    ELSE -1

\* s.strip()
strip(s) ==
    IF \A i \in 1..Len(s) : IsSpace(s[i]) THEN <<>>
    ELSE LET lo == CHOOSE i \in 1..Len(s) :
                       ~IsSpace(s[i]) /\ \A k \in 1..(i - 1) : IsSpace(s[k])
             hi == CHOOSE i \in 1..Len(s) :
                       ~IsSpace(s[Len(s) + 1 - i])
                       /\ \A k \in 1..(i - 1) : IsSpace(s[Len(s) + 1 - k])
         IN  SubSeq(s, lo, Len(s) + 1 - hi)

\* s.startswith(p)
startswith(s, p) == Len(p) <= Len(s) /\ OccursAt(p, s, 1)

\* s.replace(old, "", 1)
replace1(s, old) ==
    LET i == find(s, old)
    IN  IF i < 0 \/ Len(old) = 0 THEN s
        ELSE Slice(s, 0, i) \o Slice(s, i + Len(old), Len(s))

\* the k-th smallest element of a finite set of integers
Nth(S, k) == CHOOSE p \in S : Cardinality({q \in S : q < p}) = k - 1

\* s.split(c) for a one-character separator c
split(s, c) ==
    LET seps == {i \in 1..Len(s) : s[i] = c}
        n    == Cardinality(seps)
        from(k) == IF k = 1 THEN 1 ELSE Nth(seps, k - 1) + 1
        to(k)   == IF k = n + 1 THEN Len(s) ELSE Nth(seps, k) - 1
    IN  SubSeq([k \in 1..(n + 1) |-> SubSeq(s, from(k), to(k))], 1, n + 1)

\* sep.join(parts)
RECURSIVE join(_, _)
join(sep, parts) ==
    IF Len(parts) = 0 THEN <<>>
    ELSE IF Len(parts) = 1 THEN parts[1]
    ELSE parts[1] \o sep \o join(sep, Tail(parts))

\* str(n) for n >= 0
RECURSIVE str(_)
str(n) == IF n < 10 THEN <<DigitChars[n + 1]>>
          ELSE str(n \div 10) \o <<DigitChars[(n % 10) + 1]>>

\* lst[:n]
Take(lst, n) == SubSeq(lst, 1, IF Len(lst) < n THEN Len(lst) ELSE n)

\* [x for x in lst if keep(x)], S being the positions that are kept
FilterPos(lst, S) == [k \in 1..Cardinality(S) |-> lst[Nth(S, k)]]

\* the empty dict
EmptyDict == [k \in {} |-> <<>>]

(***************************************************************************)
(* services/resume_processor.py: keyword lists                             *)
(***************************************************************************)
education_keywords == <<
    <<"e","d","u","c","a","t","i","o","n">>,
    <<"d","e","g","r","e","e">>,
    <<"u","n","i","v","e","r","s","i","t","y">>,
    <<"c","o","l","l","e","g","e">>,
    <<"b","a","c","h","e","l","o","r">>,
    <<"m","a","s","t","e","r">>,
    <<"p","h","d">>,
    <<"g","r","a","d","u","a","t","i","o","n">>
    >>

experience_keywords == <<
    <<"e","x","p","e","r","i","e","n","c","e">>,
    <<"w","o","r","k">>,
    <<"e","m","p","l","o","y","m","e","n","t">>,
    <<"j","o","b">>,
    <<"p","o","s","i","t","i","o","n">>,
    <<"r","o","l","e">>
    >>

common_skills == <<
    <<"p","y","t","h","o","n">>,
    <<"j","a","v","a">>,
    <<"j","a","v","a","s","c","r","i","p","t">>,
    <<"s","q","l">>,
    <<"m","o","n","g","o","d","b">>,
    <<"p","o","s","t","g","r","e","s","q","l">>,
    <<"f","a","s","t","a","p","i">>,
    <<"f","l","a","s","k">>,
    <<"d","j","a","n","g","o">>,
    <<"r","e","a","c","t">>,
    <<"n","o","d","e",".","j","s">>,
    <<"a","w","s">>,
    <<"d","o","c","k","e","r">>,
    <<"g","i","t">>,
    <<"l","i","n","u","x">>,
    <<"d","a","t","a"," ","a","n","a","l","y","s","i","s">>,
    <<"m","a","c","h","i","n","e"," ","l","e","a","r","n","i","n","g">>,
    <<"d","e","e","p"," ","l","e","a","r","n","i","n","g">>,
    <<"t","e","n","s","o","r","f","l","o","w">>,
    <<"p","y","t","o","r","c","h">>,
    <<"p","a","n","d","a","s">>,
    <<"n","u","m","p","y">>,
    <<"s","c","i","k","i","t","-","l","e","a","r","n">>
    >>

skills_keywords == <<
    <<"s","k","i","l","l","s">>,
    <<"t","e","c","h","n","i","c","a","l"," ","s","k","i","l","l","s">>,
    <<"c","o","m","p","e","t","e","n","c","i","e","s">>
    >>

cert_keywords == <<
    <<"c","e","r","t","i","f","i","c","a","t","i","o","n">>,
    <<"c","e","r","t","i","f","i","c","a","t","e">>,
    <<"c","e","r","t","i","f","i","e","d">>,
    <<"a","w","s">>,
    <<"g","o","o","g","l","e">>,
    <<"m","i","c","r","o","s","o","f","t">>
    >>

project_keywords == <<
    <<"p","r","o","j","e","c","t">>,
    <<"p","r","o","j","e","c","t","s">>,
    <<"p","o","r","t","f","o","l","i","o">>
    >>

hobby_keywords == <<
    <<"h","o","b","b","i","e","s">>,
    <<"i","n","t","e","r","e","s","t","s">>,
    <<"h","o","b","b","y">>,
    <<"i","n","t","e","r","e","s","t">>
    >>

intro_keywords == <<
    <<"s","u","m","m","a","r","y">>,
    <<"i","n","t","r","o","d","u","c","t","i","o","n">>,
    <<"a","b","o","u","t">>,
    <<"p","r","o","f","i","l","e">>,
    <<"o","b","j","e","c","t","i","v","e">>
    >>

(***************************************************************************)
(* services/resume_processor.py: the section locators                      *)
(***************************************************************************)
\* the number of items a list-valued locator keeps
MaxItems == 5

\* the length of the window of text the introduction locator takes
IntroWindow == 300

\* the cap on the length of the introduction
IntroCap == 500

\* the length of the window of text after a skills keyword
SkillsWindow == 500

\* the projects locator scans range(i+1, min(i+10, len(lines)))
ProjectsRange == 10

\* any(keyword in s for keyword in kws)
AnyKeywordIn(kws, s) == \E k \in 1..Len(kws) : Contains(kws[k], s)

\* the position of the first line that holds a keyword, 0 when there is none:
\* the loop  for i, line in enumerate(lines): if any(...): ...; break
FirstMatch(kws, lines) ==
    LET M == {i \in 1..Len(lines) : AnyKeywordIn(kws, lower(lines[i]))}
    IN  IF M = {} THEN 0 ELSE Nth(M, 1)

_extract_education(text_lower, lines) ==
    LET i == FirstMatch(education_keywords, lines)
    IN  IF i = 0 THEN EmptyDict
        ELSE LET years == {y \in 2000..2029 : Contains(str(y), lines[i])}
             IN  IF years = {} THEN [degree |-> strip(lines[i])]
                 ELSE [degree |-> strip(lines[i]), year |-> Nth(years, 1)]

_extract_experience(text_lower, lines) ==
    LET i == FirstMatch(experience_keywords, lines)
    IN  IF i = 0 \/ ~(i + 1 <= Len(lines)) THEN EmptyDict
        ELSE [title |-> strip(lines[i + 1])]

\* the text after the first skills keyword that occurs, lower-cased
SkillsText(text_lower, resume_text) ==
    LET K == {k \in 1..Len(skills_keywords) : Contains(skills_keywords[k], text_lower)}
    IN  IF K = {} THEN <<>>
        ELSE LET idx == find(text_lower, skills_keywords[Nth(K, 1)])
             IN  lower(Slice(resume_text, idx, idx + SkillsWindow))

\* the skill matcher that looks only at the window after a skills keyword
\* when the text has one
MatchedSkillsInWindow(text_lower, resume_text) ==
    LET skills_text == SkillsText(text_lower, resume_text)
        surface == IF skills_text = <<>> THEN text_lower ELSE skills_text
        hits == {i \in 1..Len(common_skills) : Contains(common_skills[i], surface)}
    IN  [k \in 1..Cardinality(hits) |-> title(FilterPos(common_skills, hits)[k])]

\* the list skills before list(set(skills)): vocabulary order
MatchedSkills(text_lower, resume_text) ==
    LET skills_text == SkillsText(text_lower, resume_text)
        hit(i) == \/ Contains(common_skills[i], text_lower)
                  \/ Contains(common_skills[i], skills_text)
        hits == {i \in 1..Len(common_skills) : hit(i)}
    IN  [k \in 1..Cardinality(hits) |-> title(FilterPos(common_skills, hits)[k])]

\* list(set(skills)): CPython walks the set's hash table, and the hash of a
\* str is salted per process (PYTHONHASHSEED), so the order of the list is
\* a function of the salt and of the elements.  Salt 0 gives the order of
\* the vocabulary, salt s > 0 the order of i * (29 - s) mod 29.
HashKey(seed, i) == (i * (IF seed = 0 THEN 1 ELSE 29 - seed)) % 29

ListOfSet(seed, skills) ==
    LET S    == {skills[k] : k \in 1..Len(skills)}
        ix(e) == CHOOSE i \in 1..Len(common_skills) : title(common_skills[i]) = e
        before(e) == Cardinality({d \in S : HashKey(seed, ix(d)) < HashKey(seed, ix(e))})
    IN  [k \in 1..Cardinality(S) |-> CHOOSE e \in S : before(e) = k - 1]

_extract_skills(seed, text_lower, resume_text) ==
    ListOfSet(seed, MatchedSkills(text_lower, resume_text))

_extract_certifications(text_lower, lines) ==
    LET cert(i) == /\ AnyKeywordIn(cert_keywords, lower(lines[i]))
                   /\ Len(strip(lines[i])) > 5
        stripped == [i \in 1..Len(lines) |-> strip(lines[i])]
    IN  Take(FilterPos(stripped, {i \in 1..Len(lines) : cert(i)}), MaxItems)

_extract_projects(text_lower, lines) ==
    LET i == FirstMatch(project_keywords, lines)
    IN  IF i = 0 THEN <<>>
        ELSE LET \* 0-based range(i0+1, min(i0+10, n)) is 1-based (i+1)..min(i+9, n)
                 last == IF i + ProjectsRange - 1 < Len(lines)
                         THEN i + ProjectsRange - 1 ELSE Len(lines)
                 long(j) == j > i /\ j <= last /\ Len(strip(lines[j])) > 10
                 stripped == [j \in 1..Len(lines) |-> strip(lines[j])]
             IN  \* the loop stops at 5 collected: the first 5 of the window
                 Take(FilterPos(stripped, {j \in 1..Len(lines) : long(j)}), MaxItems)

\* the hobbies locator without the cap of 5
HobbiesUncapped(text_lower, lines) ==
    LET i == FirstMatch(hobby_keywords, lines)
    IN  IF i = 0 THEN <<>>
        ELSE LET parts == split(lines[i], ":")
             IN  IF Len(parts) > 1
                 THEN LET items == split(parts[2], ",")
                      IN  [k \in 1..Len(items) |-> strip(items[k])]
                 ELSE <<>>

_extract_hobbies(text_lower, lines) ==
    LET i == FirstMatch(hobby_keywords, lines)
    IN  IF i = 0 THEN <<>>
        ELSE LET parts == split(lines[i], ":")
             IN  IF Len(parts) > 1
                 THEN LET items == split(parts[2], ",")
                          hobby_list == [k \in 1..Len(items) |-> strip(items[k])]
                      IN  Take(hobby_list, MaxItems)
                 ELSE <<>>

\* for kw in intro_keywords: intro = intro.replace(kw, "", 1)
RECURSIVE StripKeywords(_, _)
StripKeywords(intro, k) ==
    IF k > Len(intro_keywords) THEN intro
    ELSE StripKeywords(replace1(intro, intro_keywords[k]), k + 1)

\* the introduction locator with a fallback that is not trimmed
IntroductionUntrimmed(resume_text, text_lower) ==
    IF \E k \in 1..Len(intro_keywords) : Contains(intro_keywords[k], text_lower)
    THEN <<>>
    ELSE IF Contains(<<"\n", "\n">>, resume_text)
    THEN Slice(resume_text, 0, find(resume_text, <<"\n", "\n">>))
    ELSE Slice(resume_text, 0, IntroWindow)

_extract_introduction(resume_text, text_lower) ==
    LET K == {k \in 1..Len(intro_keywords) : Contains(intro_keywords[k], text_lower)}
    IN  IF K # {}
        THEN LET idx    == find(text_lower, intro_keywords[Nth(K, 1)])
                 intro  == strip(Slice(resume_text, idx, idx + IntroWindow))
                 intro2 == strip(StripKeywords(intro, 1))
                 intro3 == IF startswith(intro2, <<":">>)
                           THEN strip(Slice(intro2, 1, Len(intro2))) ELSE intro2
             IN  Slice(intro3, 0, IntroCap)
        ELSE LET first_paragraph ==
                     IF Contains(<<"\n", "\n">>, resume_text)
                     THEN Slice(resume_text, 0, find(resume_text, <<"\n", "\n">>))
                     ELSE Slice(resume_text, 0, IntroWindow)
             IN  Slice(strip(first_paragraph), 0, IntroCap)

(***************************************************************************)
(* services/resume_processor.py: the profile assembler                     *)
(***************************************************************************)
\* HUGGINGFACE_API_KEY is set: QAService() raises without it, and main.py
\* builds the QAService before it serves a request
hf_api_key == TRUE

\* a value that is not a str: None
None == <<"<None>">>

\* what a call does: it returns a value or it raises
Return(v) == [ret |-> v]

Raise(e) == [exc |-> e]

Raised(r) == "exc" \in DOMAIN r

_extract_with_hf_api(resume_text) == Return(None)

_extract_with_rules(seed, resume_text) ==
    IF resume_text = None
    THEN Raise("AttributeError")       \* None has no lower()
    ELSE LET text_lower == lower(resume_text)
             lines      == split(resume_text, "\n")
         IN  Return([education      |-> _extract_education(text_lower, lines),
                     experience     |-> _extract_experience(text_lower, lines),
                     skills         |-> _extract_skills(seed, text_lower, resume_text),
                     hobbies        |-> _extract_hobbies(text_lower, lines),
                     certifications |-> _extract_certifications(text_lower, lines),
                     projects       |-> _extract_projects(text_lower, lines),
                     introduction   |-> _extract_introduction(resume_text, text_lower)])

\* the profile of the except branch
FallbackProfile(resume_text) ==
    [education      |-> EmptyDict,
     experience     |-> EmptyDict,
     skills         |-> <<>>,
     hobbies        |-> <<>>,
     certifications |-> <<>>,
     projects       |-> <<>>,
     introduction   |-> IF resume_text # None /\ resume_text # <<>>
                        THEN Slice(resume_text, 0, IntroCap) ELSE <<>>]

process_resume(seed, resume_text) ==
    LET hf == IF hf_api_key THEN _extract_with_hf_api(resume_text) ELSE Return(None)
        r  == IF ~Raised(hf) /\ hf.ret # None
              THEN hf
              ELSE _extract_with_rules(seed, resume_text)
    IN  IF Raised(r) THEN Return(FallbackProfile(resume_text)) ELSE r

(***************************************************************************)
(* services/qa_service.py: the fixed texts                                 *)
(***************************************************************************)
\* the template of _create_prompt, around {context} and {question}
PromptHead ==
    <<"B","a","s","e","d"," ","o","n"," ","t","h","e"," ","f","o","l","l","o",
      "w","i","n","g"," ","c","a","n","d","i","d","a","t","e"," ","i","n","f",
      "o","r","m","a","t","i","o","n",","," ","a","n","s","w","e","r"," ","t",
      "h","e"," ","q","u","e","s","t","i","o","n"," ","a","c","c","u","r","a",
      "t","e","l","y"," ","a","n","d"," ","c","o","n","c","i","s","e","l","y",
      ".","\n","\n","C","a","n","d","i","d","a","t","e"," ","I","n","f","o",
      "r","m","a","t","i","o","n",":","\n">>

PromptQuestion ==
    <<"\n","\n","Q","u","e","s","t","i","o","n",":"," ">>

PromptTail ==
    <<"\n","\n","A","n","s","w","e","r",":">>

\* the answers of _call_hf_api that are not generated text
MsgTimeout ==
    <<"R","e","q","u","e","s","t"," ","t","i","m","e","d"," ","o","u","t",".",
      " ","P","l","e","a","s","e"," ","t","r","y"," ","a","g","a","i","n",
      ".">>

MsgLoading ==
    <<"T","h","e"," ","A","I"," ","m","o","d","e","l"," ","i","s"," ","c","u",
      "r","r","e","n","t","l","y"," ","l","o","a","d","i","n","g","."," ","P",
      "l","e","a","s","e"," ","t","r","y"," ","a","g","a","i","n"," ","i","n",
      " ","a"," ","f","e","w"," ","s","e","c","o","n","d","s",".">>

MsgNoAnswer ==
    <<"I"," ","c","o","u","l","d","n","'","t"," ","g","e","n","e","r","a","t",
      "e"," ","a"," ","p","r","o","p","e","r"," ","a","n","s","w","e","r",".",
      " ","P","l","e","a","s","e"," ","t","r","y"," ","r","e","p","h","r","a",
      "s","i","n","g"," ","y","o","u","r"," ","q","u","e","s","t","i","o","n",
      ".">>

\* the answers of _fallback_answer
MsgGraduationIn ==
    <<"T","h","e"," ","c","a","n","d","i","d","a","t","e"," ","f","i","n","i",
      "s","h","e","d"," ","g","r","a","d","u","a","t","i","o","n"," ","i","n",
      " ">>

MsgNoGraduation ==
    <<"T","h","e"," ","g","r","a","d","u","a","t","i","o","n"," ","d","a","t",
      "e"," ","i","n","f","o","r","m","a","t","i","o","n"," ","i","s"," ","n",
      "o","t"," ","e","x","p","l","i","c","i","t","l","y"," ","a","v","a","i",
      "l","a","b","l","e"," ","i","n"," ","t","h","e"," ","c","a","n","d","i",
      "d","a","t","e","'","s"," ","d","a","t","a",".">>

MsgSkills ==
    <<"T","h","e"," ","c","a","n","d","i","d","a","t","e"," ","h","a","s"," ",
      "t","h","e"," ","f","o","l","l","o","w","i","n","g"," ","s","k","i","l",
      "l","s",":"," ">>

MsgNoSkills ==
    <<"P","l","e","a","s","e"," ","c","h","e","c","k"," ","t","h","e"," ","s",
      "k","i","l","l","s"," ","s","e","c","t","i","o","n"," ","i","n"," ","t",
      "h","e"," ","c","a","n","d","i","d","a","t","e","'","s"," ","p","r","o",
      "f","i","l","e"," ","f","o","r"," ","d","e","t","a","i","l","e","d"," ",
      "i","n","f","o","r","m","a","t","i","o","n",".">>

MsgExperience ==
    <<"B","a","s","e","d"," ","o","n"," ","t","h","e"," ","c","a","n","d","i",
      "d","a","t","e","'","s"," ","e","x","p","e","r","i","e","n","c","e",":",
      " ">>

MsgNoExperience ==
    <<"P","l","e","a","s","e"," ","c","h","e","c","k"," ","t","h","e"," ","e",
      "x","p","e","r","i","e","n","c","e"," ","s","e","c","t","i","o","n"," ",
      "i","n"," ","t","h","e"," ","c","a","n","d","i","d","a","t","e","'","s",
      " ","p","r","o","f","i","l","e"," ","f","o","r"," ","w","o","r","k"," ",
      "h","i","s","t","o","r","y"," ","d","e","t","a","i","l","s",".">>

MsgNoFallback ==
    <<"I"," ","c","o","u","l","d","n","'","t"," ","g","e","n","e","r","a","t",
      "e"," ","a"," ","p","r","o","p","e","r"," ","a","n","s","w","e","r",".",
      " ","P","l","e","a","s","e"," ","c","h","e","c","k"," ","t","h","e"," ",
      "c","a","n","d","i","d","a","t","e","'","s"," ","p","r","o","f","i","l",
      "e"," ","o","r"," ","t","r","y"," ","r","e","p","h","r","a","s","i","n",
      "g"," ","y","o","u","r"," ","q","u","e","s","t","i","o","n",".">>

(***************************************************************************)
(* services/qa_service.py: the context serializer and the prompt builder   *)
(***************************************************************************)
\* json.dumps of one character of a str
JsonEscapeChar(c) ==
    CASE c = "\"" -> <<"\\", "\"">>
      [] c = "\\" -> <<"\\", "\\">>
      [] c = "\n" -> <<"\\", "n">>
      [] c = "\t" -> <<"\\", "t">>
      [] c = "\r" -> <<"\\", "r">>
      [] OTHER    -> <<c>>

RECURSIVE JsonEscape(_)
JsonEscape(s) ==
    IF Len(s) = 0 THEN <<>>
    ELSE IF Len(s) = 1 THEN JsonEscapeChar(s[1])
    ELSE JsonEscape(SubSeq(s, 1, Len(s) \div 2))
         \o JsonEscape(SubSeq(s, Len(s) \div 2 + 1, Len(s)))

\* json.dumps of a str
JsonString(s) == <<"\"">> \o JsonEscape(s) \o <<"\"">>

\* json.dumps of the education or experience dict: the keys in the order
\* the locators insert them
json_dumps(d) ==
    LET item(key, val) == JsonString(key) \o <<":", " ">> \o val
        items ==
            (IF "degree" \in DOMAIN d
             THEN <<item(<<"d","e","g","r","e","e">>, JsonString(d.degree))>> ELSE <<>>)
            \o (IF "year" \in DOMAIN d
                THEN <<item(<<"y","e","a","r">>, str(d.year))>> ELSE <<>>)
            \o (IF "title" \in DOMAIN d
                THEN <<item(<<"t","i","t","l","e">>, JsonString(d.title))>> ELSE <<>>)
    IN  <<"{">> \o join(<<",", " ">>, items) \o <<"}">>

_prepare_context(candidate_data) ==
    LET comma == <<",", " ">>
        context_parts ==
            (IF candidate_data.introduction # <<>>
             THEN << <<"I","n","t","r","o","d","u","c","t","i","o","n",":"," ">>
                     \o candidate_data.introduction >> ELSE <<>>)
            \o (IF DOMAIN candidate_data.education # {}
                THEN << <<"E","d","u","c","a","t","i","o","n",":"," ">>
                        \o json_dumps(candidate_data.education) >> ELSE <<>>)
            \o (IF DOMAIN candidate_data.experience # {}
                THEN << <<"E","x","p","e","r","i","e","n","c","e",":"," ">>
                        \o json_dumps(candidate_data.experience) >> ELSE <<>>)
            \o (IF candidate_data.skills # <<>>
                THEN << <<"S","k","i","l","l","s",":"," ">>
                        \o join(comma, candidate_data.skills) >> ELSE <<>>)
            \o (IF candidate_data.certifications # <<>>
                THEN << <<"C","e","r","t","i","f","i","c","a","t","i","o","n","s",":"," ">>
                        \o join(comma, candidate_data.certifications) >> ELSE <<>>)
            \o (IF candidate_data.projects # <<>>
                THEN << <<"P","r","o","j","e","c","t","s",":"," ">>
                        \o join(comma, candidate_data.projects) >> ELSE <<>>)
            \o (IF candidate_data.hobbies # <<>>
                THEN << <<"H","o","b","b","i","e","s",":"," ">>
                        \o join(comma, candidate_data.hobbies) >> ELSE <<>>)
    IN  join(<<"\n">>, context_parts)

_create_prompt(question, context) ==
    PromptHead \o context \o PromptQuestion \o question \o PromptTail

(***************************************************************************)
(* services/qa_service.py: the fallback answerer                           *)
(***************************************************************************)
\* a match of r'\b(19|20)\d{2}\b' starts at position i of s
YearMatchAt(s, i) ==
    /\ i + 3 <= Len(s)
    /\ \/ s[i] = "1" /\ s[i + 1] = "9"
       \/ s[i] = "2" /\ s[i + 1] = "0"
    /\ IsDigit(s[i + 2])
    /\ IsDigit(s[i + 3])
    /\ (i = 1 \/ ~IsWordChar(s[i - 1]))
    /\ (i + 3 = Len(s) \/ ~IsWordChar(s[i + 4]))

\* re.findall(r'\b(19|20)\d{2}\b', s): with one group in the pattern,
\* findall returns what the group matched, for every match
findall_years(s) ==
    LET M == {i \in 1..Len(s) : YearMatchAt(s, i)}
    IN  [k \in 1..Cardinality(M) |-> SubSeq(s, Nth(M, k), Nth(M, k) + 1)]

\* the position after the run of \s that starts at position p of s
SkipSpace(s, p) ==
    LET stop == {q \in p..Len(s) : ~IsSpace(s[q])}
    IN  IF stop = {} THEN Len(s) + 1 ELSE Nth(stop, 1)

\* the last position of the run of [^c] that starts at position p of s
RunUntil(s, p, c) ==
    LET stop == {q \in p..Len(s) : s[q] = c}
    IN  IF stop = {} THEN Len(s) ELSE Nth(stop, 1) - 1

\* re.search(r'skills:\s*([^\n]+)', s): group 1 of the leftmost match, or
\* None.  \s* is greedy and gives back what it took until [^\n]+ can match.
search_skills(s) ==
    LET kw == <<"s","k","i","l","l","s",":">>
        groupStarts(i) ==
            {p \in (i + Len(kw))..SkipSpace(s, i + Len(kw)) : p <= Len(s) /\ s[p] # "\n"}
        M == {i \in 1..Len(s) : OccursAt(kw, s, i) /\ groupStarts(i) # {}}
    IN  IF M = {} THEN None
        ELSE LET p == Nth(groupStarts(Nth(M, 1)), Cardinality(groupStarts(Nth(M, 1))))
             IN  SubSeq(s, p, RunUntil(s, p, "\n"))

\* re.search(r'experience:\s*({[^}]+})', s): group 1 of the leftmost match,
\* or None
search_experience(s) ==
    LET kw == <<"e","x","p","e","r","i","e","n","c","e",":">>
        open(i)  == SkipSpace(s, i + Len(kw))
        close(i) == RunUntil(s, open(i) + 1, "}") + 1
        M == {i \in 1..Len(s) :
                /\ OccursAt(kw, s, i)
                /\ open(i) <= Len(s)
                /\ s[open(i)] = "{"
                /\ close(i) <= Len(s)
                /\ close(i) >= open(i) + 2}
    IN  IF M = {} THEN None
        ELSE SubSeq(s, open(Nth(M, 1)), close(Nth(M, 1)))

_fallback_answer(prompt) ==
    LET prompt_lower == lower(prompt)
        has(kw) == Contains(kw, prompt_lower)
        years == findall_years(prompt)
        skills_text == search_skills(prompt_lower)
        exp_match == search_experience(prompt_lower)
    IN  IF has(<<"g","r","a","d","u","a","t","i","o","n">>)
           \/ has(<<"g","r","a","d","u","a","t","e">>)
        THEN IF has(<<"e","d","u","c","a","t","i","o","n">>) /\ Len(years) > 0
             THEN MsgGraduationIn \o years[Len(years)] \o <<".">>
             ELSE MsgNoGraduation
        ELSE IF has(<<"s","k","i","l","l">>)
        THEN IF has(<<"s","k","i","l","l","s",":">>) /\ skills_text # None
             THEN MsgSkills \o skills_text
             ELSE MsgNoSkills
        ELSE IF has(<<"e","x","p","e","r","i","e","n","c","e">>)
                \/ has(<<"w","o","r","k">>)
        THEN IF has(<<"e","x","p","e","r","i","e","n","c","e",":">>) /\ exp_match # None
             THEN MsgExperience \o exp_match
             ELSE MsgNoExperience
        ELSE MsgNoFallback

(***************************************************************************)
(* services/qa_service.py: the hosted inference call                       *)
(*                                                                         *)
(* A decoded JSON value carries its Python type: t is "str" (s), "int"    *)
(* (n), "None", "list" (items) or "dict" (pairs, <<key, value>> in the    *)
(* order of the keys); "bad" is a body response.json() cannot decode.      *)
(***************************************************************************)
JStr(s) == [t |-> "str", s |-> s]

JInt(n) == [t |-> "int", n |-> n]

JNone == [t |-> "None"]

JList(items) == [t |-> "list", items |-> items]

JDict(pairs) == [t |-> "dict", pairs |-> pairs]

JBad == [t |-> "bad"]

\* key in d, d[key] for a dict d
HasKey(d, key) == \E k \in 1..Len(d.pairs) : d.pairs[k][1] = key

Lookup(d, key) == d.pairs[CHOOSE k \in 1..Len(d.pairs) : d.pairs[k][1] = key][2]

\* repr of one character of a str delimited by the quote q
ReprChar(c, q) ==
    CASE c = q    -> <<"\\", c>>
      [] c = "\\" -> <<"\\", "\\">>
      [] c = "\n" -> <<"\\", "n">>
      [] c = "\t" -> <<"\\", "t">>
      [] c = "\r" -> <<"\\", "r">>
      [] OTHER    -> <<c>>

RECURSIVE ReprChars(_, _)
ReprChars(s, q) ==
    IF Len(s) = 0 THEN <<>> ELSE ReprChar(s[1], q) \o ReprChars(Tail(s), q)

\* repr(s): single quotes, double ones when s holds ' and no "
ReprStr(s) ==
    LET q == IF Contains(<<"'">>, s) /\ ~Contains(<<"\"">>, s) THEN "\"" ELSE "'"
    IN  <<q>> \o ReprChars(s, q) \o <<q>>

\* repr(v)
RECURSIVE PyRepr(_)
PyRepr(v) ==
    CASE v.t = "str"  -> ReprStr(v.s)
      [] v.t = "int"  -> str(v.n)
      [] v.t = "None" -> <<"N","o","n","e">>
      [] v.t = "list" ->
            <<"[">> \o join(<<",", " ">>, [k \in 1..Len(v.items) |-> PyRepr(v.items[k])])
                    \o <<"]">>
      [] v.t = "dict" ->
            <<"{">> \o join(<<",", " ">>,
                            [k \in 1..Len(v.pairs) |->
                                ReprStr(v.pairs[k][1]) \o <<":", " ">>
                                    \o PyRepr(v.pairs[k][2])])
                    \o <<"}">>

\* str(v)
PyStr(v) == IF v.t = "str" THEN v.s ELSE PyRepr(v)

\* key in v, for a str key: a key of a dict, an element of a list, a
\* substring of a str; a TypeError for an int or None
KeyIn(key, v) ==
    CASE v.t = "dict" -> Return(HasKey(v, key))
      [] v.t = "list" -> Return(\E k \in 1..Len(v.items) :
                                    v.items[k].t = "str" /\ v.items[k].s = key)
      [] v.t = "str"  -> Return(Contains(key, v.s))
      [] OTHER        -> Raise("TypeError")

\* v[key].strip(), for a str key
ItemStrip(v, key) ==
    IF v.t # "dict" THEN Raise("TypeError")
    ELSE IF ~HasKey(v, key) THEN Raise("KeyError")
    ELSE IF Lookup(v, key).t # "str" THEN Raise("AttributeError")
    ELSE Return(strip(Lookup(v, key).s))

\* the branch for status 200, without the handlers around it
Decode200(result) ==
    LET generated_text == <<"g","e","n","e","r","a","t","e","d","_","t","e","x","t">>
        text           == <<"t","e","x","t">>
        nonempty       == result.t = "list" /\ Len(result.items) > 0
        rest ==
            IF result.t = "str" THEN Return(strip(result.s))
            ELSE IF nonempty THEN Return(strip(PyStr(result.items[1])))
            ELSE Return(MsgNoAnswer)
    IN  IF result.t = "bad" THEN Raise("JSONDecodeError")
        ELSE IF nonempty
        THEN LET r0 == result.items[1]
                 gt == KeyIn(generated_text, r0)
             IN  IF Raised(gt) THEN gt
                 ELSE IF gt.ret THEN ItemStrip(r0, generated_text)
                 ELSE IF r0.t = "dict" /\ HasKey(r0, text) THEN ItemStrip(r0, text)
                 ELSE rest
        ELSE rest

\* the try block of _call_hf_api: what requests.post did is outcome, a
\* response with a status and a body, or an exception
CallHfApiBody(prompt, outcome) ==
    IF outcome.kind # "response" THEN Raise(outcome.kind)
    ELSE IF outcome.status = 200 THEN Decode200(outcome.body)
    ELSE IF outcome.status = 503 THEN Return(MsgLoading)
    ELSE Return(_fallback_answer(prompt))

\* the call without its handlers: what the try block raises is raised
CallHfApiUnhandled(prompt, outcome) == CallHfApiBody(prompt, outcome)

\* the call with a timeout handled like any other exception
CallHfApiTimeoutToFallback(prompt, outcome) ==
    LET r == CallHfApiBody(prompt, outcome)
    IN  IF ~Raised(r) THEN r ELSE Return(_fallback_answer(prompt))

\* the call with status 503 handled like any other error status
CallHfApiLoadingToFallback(prompt, outcome) ==
    LET r == IF outcome.kind = "response" /\ outcome.status = 503
             THEN Return(_fallback_answer(prompt))
             ELSE CallHfApiBody(prompt, outcome)
    IN  IF ~Raised(r) THEN r
        ELSE IF r.exc = "Timeout" THEN Return(MsgTimeout)
        ELSE Return(_fallback_answer(prompt))

\* except requests.exceptions.Timeout: ...  except Exception: ...
_call_hf_api(prompt, outcome) ==
    LET r == CallHfApiBody(prompt, outcome)
    IN  IF ~Raised(r) THEN r
        ELSE IF r.exc = "Timeout" THEN Return(MsgTimeout)
        ELSE Return(_fallback_answer(prompt))

answer_question(question, candidate_data, outcome) ==
    LET context == _prepare_context(candidate_data)
        prompt  == _create_prompt(question, context)
        answer  == _call_hf_api(prompt, outcome)
    IN  IF Raised(answer) THEN Raise("Exception") ELSE answer

(***************************************************************************)
(* Resume texts and questions: the blocks of lines the inputs are made of  *)
(***************************************************************************)
Blocks == <<
    <<>>,
    <<"H","o","b","b","i","e","s",":"," ","r","e","a","d","i","n","g",","," ",
      "c","h","e","s","s",","," ","t","r","a","v","e","l">>,
    <<"I","n","t","e","r","e","s","t","s",":"," ","a","r","t",":"," ","o","i",
      "l",","," ","c","h","e","s","s">>,
    <<"h","o","b","b","y"," ","l","i","s","t",":"," ","a",","," ","b"," ",",",
      " ","c",",","d",","," ","e",","," ","f",","," ","g">>,
    <<"m","y"," ","h","o","b","b","i","e","s"," ","a","r","e"," ","s","e","c",
      "r","e","t">>,
    <<"B","a","c","h","e","l","o","r"," ","o","f"," ","S","c","i","e","n","c",
      "e",","," ","2","0","1","8",","," ","E","d","u","c","a","t","i","o",
      "n">>,
    <<"G","r","a","d","u","a","t","i","o","n"," ","2","0","2","1"," ","a","f",
      "t","e","r"," ","2","0","0","5">>,
    <<"W","o","r","k"," ","E","x","p","e","r","i","e","n","c","e">>,
    <<" "," ","S","o","f","t","w","a","r","e"," ","E","n","g","i","n","e","e",
      "r"," "," ">>,
    <<"S","k","i","l","l","s",":"," ","P","Y","T","H","O","N"," ","a","n","d",
      " ","P","y","t","h","o","n",","," ","s","q","l">>,
    <<"G","i","t"," ","o","n"," ","L","i","n","u","x">>,
    <<"S","U","M","M","A","R","Y",":"," ","p","r","o","f","i","l","e"," ","o",
      "f"," ","a"," ","c","o","d","e","r">>,
    <<"A","b","o","u","t"," ","m","e"," ",":"," ","I"," ","c","o","d","e">>,
    <<"A","W","S"," ","C","e","r","t","i","f","i","e","d"," ","D","e","v",
      "\n","G","o","o","g","l","e"," ","C","l","o","u","d"," ","C","e","r",
      "t","\n","M","i","c","r","o","s","o","f","t"," ","A","z","u","r","e",
      "\n","C","e","r","t","i","f","i","e","d"," ","S","c","r","u","m","\n",
      "a","w","s"," ","s","3","\n","C","e","r","t","i","f","i","c","a","t",
      "e"," ","o","f"," ","M","e","r","i","t","\n","C","e","r","t","i","f",
      "i","c","a","t","i","o","n"," ","i","n"," ","Q","A">>,
    <<"P","r","o","j","e","c","t","s","\n","s","h","o","r","t","\n","R","e",
      "s","u","m","e"," ","p","a","r","s","e","r"," ","a","p","p","\n","C",
      "h","a","t"," ","b","o","t"," ","f","o","r"," ","H","R"," ","1","\n",
      "C","h","a","t"," ","b","o","t"," ","f","o","r"," ","H","R"," ","2",
      "\n","\n","C","h","a","t"," ","b","o","t"," ","f","o","r"," ","H","R",
      " ","3","\n","C","h","a","t"," ","b","o","t"," ","f","o","r"," ","H",
      "R"," ","4","\n","C","h","a","t"," ","b","o","t"," ","f","o","r"," ",
      "H","R"," ","5","\n","C","h","a","t"," ","b","o","t"," ","f","o","r",
      " ","H","R"," ","6","\n","C","h","a","t"," ","b","o","t"," ","f","o",
      "r"," ","H","R"," ","7","\n","C","h","a","t"," ","b","o","t"," ","f",
      "o","r"," ","H","R"," ","8">>,
    [i \in 1..510 |-> "x"] \o <<"\n","\n","z">>
    >>

Questions == {
    <<"w","h","a","t"," ","s","k","i","l","l","s">>,
    <<"W","h","e","n"," ","d","i","d"," ","t","h","e","y"," ","g","r","a","d",
      "u","a","t","e","?">>,
    <<"G","r","a","d","u","a","t","i","o","n"," ","b","e","f","o","r","e"," ",
      "2","0","2","0","?">>,
    <<"w","o","r","k"," ","e","x","p","e","r","i","e","n","c","e","?">>,
    <<"h","e","l","l","o">>,
    <<"s","k","i","l","l","s",":","\n">>,
    <<"E","x","p","e","r","i","e","n","c","e",":"," ","{","}"," ","o","r"," ",
      "e","x","p","e","r","i","e","n","c","e",":"," ","{","a","}","b","}">>,
    <<"g","r","a","d","u","a","t","e","d"," ","i","n"," ","1","2","0","1","8",
      " ","o","r"," ","1","9","9","9","x"," ","o","r"," ","_","2","0","0",
      "1">>
    }

(***************************************************************************)
(* The inputs the model runs the program on                                *)
(***************************************************************************)
\* the number of hash salts a process can start with
NumSeeds == 2

Seeds == 0..(NumSeeds - 1)

\* a resume text is one block, or two of the short blocks on consecutive lines
\* a text with a project line and eleven lines after it: the ninth, the
\* tenth and the eleventh are the long ones
ProjectTexts ==
    {<<"P","r","o","j","e","c","t","s","\n","a","\n","b","\n","c","\n","d",
       "\n","e","\n","f","\n","g","\n","h","\n","N","i","n","t","h"," ","l",
       "i","n","e"," ","a","p","p","\n","T","e","n","t","h"," ","l","i","n",
       "e"," ","a","p","p","\n","E","l","e","v","e","n","t","h"," ","l","i",
       "n","e">>}

\* texts longer than the window of the introduction, with no blank line: the
\* 300th character is a space, or a letter
LongTexts ==
    {[i \in 1..299 |-> "x"] \o <<" ", "y", "z">>,
     <<" ">> \o [i \in 1..301 |-> "x"]}

Texts ==
    {Blocks[i] : i \in 1..Len(Blocks)}
    \cup {Blocks[i] \o <<"\n">> \o Blocks[j] : i, j \in 1..(Len(Blocks) - 1)}
    \cup LongTexts
    \cup ProjectTexts

\* the resume texts of the candidates that are asked about
QATexts ==
    {Blocks[i] : i \in 1..(Len(Blocks) - 1)}
    \cup {Blocks[6] \o <<"\n">> \o Blocks[10], Blocks[8] \o <<"\n">> \o Blocks[9],
          Blocks[10] \o <<"\n">> \o Blocks[7], Blocks[11] \o <<"\n">> \o Blocks[2]}

\* what requests.post can do: raise, or return a response
HFBodies ==
    {JList(<<JDict(<< <<(<<"g","e","n","e","r","a","t","e","d","_","t","e","x","t">>),
                        JStr(<<" ","P","y","t","h","o","n","."," ","\n">>)>> >>)>>),
     JList(<<JDict(<< <<(<<"t","e","x","t">>), JStr(<<"5"," ","y","e","a","r","s">>)>> >>)>>),
     JList(<<JDict(<< <<(<<"g","e","n","e","r","a","t","e","d","_","t","e","x","t">>),
                        JNone>> >>)>>),
     JList(<<JDict(<< <<(<<"l","a","b","e","l">>), JStr(<<"x">>)>> >>)>>),
     JList(<<JStr(<<"o","k"," ">>)>>),
     JList(<<JInt(42)>>),
     JList(<<>>),
     JStr(<<" ","y","e","s"," ">>),
     JDict(<< <<(<<"e","r","r","o","r">>), JStr(<<"x">>)>> >>),
     JBad}

HFOutcomes ==
    {[kind |-> "Timeout"], [kind |-> "ConnectionError"]}
    \cup {[kind |-> "response", status |-> 200, body |-> b] : b \in HFBodies}
    \cup {[kind |-> "response", status |-> s, body |-> JBad] : s \in {503, 500, 404}}

(***************************************************************************)
(* services/supabase_service.py, services/mongodb_service.py and           *)
(* services/resume_processor.py: what an upload calls                      *)
(***************************************************************************)
\* the clock ticks this many times a second
TicksPerSecond == 2

\* the clock stops at this tick
MaxNow == 2

\* the number of upload requests
MaxUploads == 2

\* datetime.now().strftime("%Y%m%d_%H%M%S"): the clock, read to the second
Timestamp(t) == t \div TicksPerSecond

\* f"{timestamp}_{filename}": the timestamp has a fixed width, so the path
\* is the pair
FilePath(t, filename) == [timestamp |-> Timestamp(t), filename |-> filename]

NoUrl == [none |-> TRUE]

\* upload_file at tick t: store, url and table are what the storage upload,
\* get_public_url and the insert into the table resume_files do; nrows is
\* the number of rows of the table.  The bucket is not part of the
\* repository: whether it takes a second object under a path it already
\* holds is its choice, so store may be "ok" whatever the bucket holds
upload_file(t, file_content, filename, store, url, table, nrows) ==
    LET file_path == FilePath(t, filename)
        metadata  == [id         |-> file_path,
                      filename   |-> filename,
                      file_path  |-> file_path,
                      file_url   |-> IF url = "ok" THEN [url_of |-> file_path] ELSE NoUrl,
                      created_at |-> t,
                      size       |-> file_content.size]
    IN  IF store = "denied" THEN Raise("Storage permission denied")
        ELSE IF store = "error" THEN Raise("Failed to upload file to storage")
        ELSE IF table = "id"
        THEN Return([metadata EXCEPT !.id = [row |-> nrows + 1]])
        ELSE Return(metadata)

\* extract_text: the text of a document that PyPDF2 or python-docx can read
extract_text(file_content, file_ext) ==
    IF file_ext \in {<<"p","d","f">>, <<"d","o","c","x">>} /\ file_content.readable
    THEN Return(strip(file_content.text))
    ELSE Raise("Failed to extract text from file")

\* connect: ping is what the server does with the ping, index what it does
\* with create_index("candidate_id", unique=True)
connect(m, ping, index) ==
    IF ping # "ok" THEN Raise("ServerSelectionTimeoutError")
    ELSE Return([connected |-> TRUE, unique |-> m.unique \/ index = "ok"])

\* insert_candidate: the new state of the service and of the collection, or
\* what is raised
insert_candidate(m, coll, candidate_data, ping, index, insert) ==
    LET c  == IF m.connected THEN Return(m) ELSE connect(m, ping, index)
        duplicate == \E k \in 1..Len(coll) :
                         coll[k].candidate_id = candidate_data.candidate_id
    IN  IF Raised(c) THEN [exc |-> "MongoDB not connected", mongo |-> m]
        ELSE IF c.ret.unique /\ duplicate
        THEN [exc |-> "DuplicateKeyError", mongo |-> c.ret]
        ELSE IF insert # "ok" THEN [exc |-> "PyMongoError", mongo |-> c.ret]
        ELSE [ret        |-> Len(coll) + 1,
              mongo      |-> c.ret,
              collection |-> Append(coll, candidate_data)]

(***************************************************************************)
(* main.py: the candidate document and the endpoints                       *)
(***************************************************************************)
\* candidate_document of upload_resume
CandidateDocument(supabase_metadata, filename, candidate_data) ==
    [candidate_id   |-> supabase_metadata.id,
     education      |-> candidate_data.education,
     experience     |-> candidate_data.experience,
     skills         |-> candidate_data.skills,
     hobbies        |-> candidate_data.hobbies,
     certifications |-> candidate_data.certifications,
     projects       |-> candidate_data.projects,
     introduction   |-> candidate_data.introduction,
     metadata       |-> [filename         |-> filename,
                         upload_time      |-> supabase_metadata.created_at,
                         supabase_file_id |-> supabase_metadata.id]]

\* the extension read after the first dot
FileExtAfterFirstDot(filename) ==
    lower(split(filename, ".")[IF Len(split(filename, ".")) > 1 THEN 2 ELSE 1])

\* file.filename.split('.')[-1].lower()
FileExt(filename) == lower(split(filename, ".")[Len(split(filename, "."))])

\* upload_resume up to await file.read(): 400, or 0 when the file is read
upload_check(filename) ==
    IF filename = <<>> THEN 400
    ELSE IF FileExt(filename) \notin {<<"p","d","f">>, <<"d","o","c","x">>} THEN 400
    ELSE 0

NoMetadata == [none |-> TRUE]

\* upload_resume with the stored object removed when the extraction fails
UploadResumeCleansUp(seed, t, m, coll, nrows, filename, file_content, o) ==
    LET file_ext == FileExt(filename)
        up   == upload_file(t, file_content, filename, o.store, o.url, o.table, nrows)
        text == extract_text(file_content, file_ext)
        data == process_resume(seed, text.ret)
        doc  == CandidateDocument(up.ret, filename, data.ret)
        ins  == insert_candidate(m, coll, doc, o.ping, o.index, o.insert)
        same == [mongo |-> m, collection |-> coll, rows |-> nrows, stored |-> {}]
        kept == [same EXCEPT !.stored = {FilePath(t, filename)},
                             !.rows = IF o.table = "raises" THEN nrows ELSE nrows + 1]
    IN  IF Raised(up)
        THEN same @@ [status |-> 500, called |-> <<"upload_file">>,
                      metadata |-> NoMetadata]
        ELSE IF Raised(text)
        THEN same @@ [status |-> 500, called |-> <<"upload_file", "extract_text">>,
                      metadata |-> up.ret]
        ELSE IF Raised(ins)
        THEN [kept EXCEPT !.mongo = ins.mongo]
             @@ [status |-> 500, metadata |-> up.ret,
                 called |-> <<"upload_file", "extract_text", "process_resume",
                              "insert_candidate">>]
        ELSE [kept EXCEPT !.mongo = ins.mongo, !.collection = ins.collection]
             @@ [status |-> 200, metadata |-> up.ret, mongo_id |-> ins.ret,
                 called |-> <<"upload_file", "extract_text", "process_resume",
                              "insert_candidate">>]

\* upload_resume after await file.read(): the calls made, in order, the
\* response and the new state of the collaborators
upload_resume(seed, t, m, coll, nrows, filename, file_content, o) ==
    LET file_ext == FileExt(filename)
        up   == upload_file(t, file_content, filename, o.store, o.url, o.table, nrows)
        text == extract_text(file_content, file_ext)
        data == process_resume(seed, text.ret)
        doc  == CandidateDocument(up.ret, filename, data.ret)
        ins  == insert_candidate(m, coll, doc, o.ping, o.index, o.insert)
        same == [mongo |-> m, collection |-> coll, rows |-> nrows, stored |-> {}]
        kept == [same EXCEPT !.stored = {FilePath(t, filename)},
                             !.rows = IF o.table = "raises" THEN nrows ELSE nrows + 1]
    IN  IF Raised(up)
        THEN same @@ [status |-> 500, called |-> <<"upload_file">>,
                      metadata |-> NoMetadata]
        ELSE IF Raised(text)
        THEN kept @@ [status |-> 500, called |-> <<"upload_file", "extract_text">>,
                      metadata |-> up.ret]
        ELSE IF Raised(ins)
        THEN [kept EXCEPT !.mongo = ins.mongo]
             @@ [status |-> 500, metadata |-> up.ret,
                 called |-> <<"upload_file", "extract_text", "process_resume",
                              "insert_candidate">>]
        ELSE [kept EXCEPT !.mongo = ins.mongo, !.collection = ins.collection]
             @@ [status |-> 200, metadata |-> up.ret, mongo_id |-> ins.ret,
                 called |-> <<"upload_file", "extract_text", "process_resume",
                              "insert_candidate">>]

\* get_candidate_by_id found no document
NoDocument == [found |-> FALSE]

\* ask_question: the response of POST /ask/{candidate_id}, for the document
\* get_candidate_by_id returned
ask_question(candidate_doc, request_question, outcome) ==
    IF candidate_doc = NoDocument
    THEN [status |-> 404]
    ELSE LET answer == answer_question(request_question, candidate_doc, outcome)
         IN  IF Raised(answer) THEN [status |-> 500]
             ELSE [status |-> 200, answer |-> answer.ret]

(***************************************************************************)
(* The state                                                               *)
(***************************************************************************)
VARIABLES
    resume_text,    \* the text a run of the extraction pipeline is given
    hashSeed,       \* the hash salt of the running process
    runs,           \* what process_resume returned, run after run
    candidate,      \* the document the question endpoint fetched
    question,       \* the question asked
    asked,          \* the outcome of the inference call and the response
    now,            \* the clock, in ticks
    started,        \* the startup event has run
    mongo,          \* MongoDBService: connected, and the index is unique
    objects,        \* the paths of the objects in the storage bucket
    rows,           \* the number of rows of the table resume_files
    collection,     \* the documents of the collection candidates
    uploads         \* the upload requests

extractVars == <<resume_text, hashSeed, runs>>

qaVars == <<candidate, question, asked>>

serverVars == <<now, started, mongo, objects, rows, collection, uploads>>

vars == <<resume_text, hashSeed, runs, candidate, question, asked,
          now, started, mongo, objects, rows, collection, uploads>>

NotAsked == [status |-> 0]

Reqs == 1..MaxUploads

IdleUpload == [pc |-> "idle", filename |-> <<>>, status |-> 0, called |-> <<>>,
               metadata |-> NoMetadata]

\* nothing runs the extraction pipeline
NoExtract == resume_text = <<>> /\ hashSeed = 0 /\ runs = <<>>

\* nothing is asked
NoQA == candidate = NoDocument /\ question = <<>> /\ asked = NotAsked

\* the service as it is constructed: MongoDBService() has no collection yet
InitServer ==
    /\ now = 0
    /\ started = FALSE
    /\ mongo = [connected |-> FALSE, unique |-> FALSE]
    /\ objects = {}
    /\ rows = 0
    /\ collection = <<>>
    /\ uploads = [r \in Reqs |-> IdleUpload]

(***************************************************************************)
(* The service: uploads                                                    *)
(***************************************************************************)
Filenames ==
    {<<>>,
     <<"c","v",".","p","d","f">>,
     <<"C","V",".","D","o","c","x">>,
     <<"c","v",".","p","d","f",".","t","x","t">>,
     <<"c","v">>}

\* the files: one no reader can parse, one that holds a resume
FileContents ==
    {[readable |-> FALSE, text |-> <<>>, size |-> 1],
     [readable |-> TRUE, text |-> <<"G","i","t","\n">>, size |-> 2]}

\* all the collaborators answer, and the table returns the id of its row
AllWell == [store |-> "ok", url |-> "ok", table |-> "id", ping |-> "ok",
            index |-> "ok", insert |-> "ok"]

\* what the collaborators do during one upload: all is well, or one of them
\* does something else
UploadOutcomes ==
    {AllWell,
     [AllWell EXCEPT !.store = "denied"],
     [AllWell EXCEPT !.store = "error"],
     [AllWell EXCEPT !.url = "raises"],
     [AllWell EXCEPT !.table = "no_id"],
     [AllWell EXCEPT !.table = "raises"],
     [AllWell EXCEPT !.ping = "raises"],
     [AllWell EXCEPT !.index = "raises"],
     [AllWell EXCEPT !.insert = "raises"]}

Init == InitServer /\ NoExtract /\ NoQA

\* startup_event: connect, and go on without MongoDB when it raises
Startup(ping, index) ==
    /\ ~started
    /\ started' = TRUE
    /\ mongo' = IF Raised(connect(mongo, ping, index)) THEN mongo
                ELSE connect(mongo, ping, index).ret
    /\ UNCHANGED <<now, objects, rows, collection, uploads>>
    /\ UNCHANGED <<extractVars, qaVars>>

\* time passes
Tick ==
    /\ now < MaxNow
    /\ now' = now + 1
    /\ UNCHANGED <<started, mongo, objects, rows, collection, uploads>>
    /\ UNCHANGED <<extractVars, qaVars>>

\* POST /upload, up to await file.read(); the requests are numbered as they
\* arrive
UploadReceive(r, filename) ==
    /\ started
    /\ uploads[r].pc = "idle"
    /\ \A q \in 1..(r - 1) : uploads[q].pc # "idle"
    /\ uploads' = [uploads EXCEPT ![r] =
            IF upload_check(filename) = 400
            THEN [IdleUpload EXCEPT !.pc = "done", !.filename = filename, !.status = 400]
            ELSE [IdleUpload EXCEPT !.pc = "reading", !.filename = filename]]
    /\ UNCHANGED <<now, started, mongo, objects, rows, collection>>
    /\ UNCHANGED <<extractVars, qaVars>>

\* POST /upload, from the return of await file.read(), which gives the
\* content of the file, to the response
UploadProcess(r, file_content, o) ==
    /\ uploads[r].pc = "reading"
    /\ \E res \in {upload_resume(hashSeed, now, mongo, collection, rows,
                                 uploads[r].filename, file_content, o)} :
           /\ uploads' = [uploads EXCEPT ![r] =
                            [pc       |-> "done",
                             filename |-> uploads[r].filename,
                             status   |-> res.status,
                             called   |-> res.called,
                             metadata |-> res.metadata]]
           /\ mongo' = res.mongo
           /\ collection' = res.collection
           /\ rows' = res.rows
           /\ objects' = objects \cup res.stored
    /\ UNCHANGED <<now, started>>
    /\ UNCHANGED <<extractVars, qaVars>>

Next ==
    \/ \E ping, index \in {"ok", "raises"} : Startup(ping, index)
    \/ Tick
    \/ \E r \in Reqs, f \in Filenames : UploadReceive(r, f)
    \/ \E r \in Reqs, c \in FileContents, o \in UploadOutcomes : UploadProcess(r, c, o)

Spec == Init /\ [][Next]_vars

\* a storage metadata record of an upload, for the candidates asked about
SampleMetadata ==
    upload_file(0, [readable |-> TRUE, text |-> <<>>, size |-> 2],
                <<"c","v",".","p","d","f">>, "ok", "ok", "no_id", 0).ret

(***************************************************************************)
(* The extraction pipeline, run twice on a text                            *)
(***************************************************************************)
InitExtract ==
    /\ resume_text \in Texts \cup {None}
    /\ hashSeed \in Seeds
    /\ runs = <<>>
    /\ NoQA
    /\ InitServer

\* one call of process_resume
ProcessResume ==
    /\ Len(runs) < 2
    /\ runs' = Append(runs, process_resume(hashSeed, resume_text))
    /\ UNCHANGED <<resume_text, hashSeed>>
    /\ UNCHANGED <<qaVars, serverVars>>

\* the service is started again: the new process has a salt of its own
Restart ==
    /\ \E s \in Seeds : hashSeed' = s
    /\ UNCHANGED <<resume_text, runs>>
    /\ UNCHANGED <<qaVars, serverVars>>

NextExtract == ProcessResume \/ Restart

SpecExtract == InitExtract /\ [][NextExtract]_vars

(***************************************************************************)
(* One question about a stored candidate                                   *)
(***************************************************************************)
QACandidates ==
    {CandidateDocument(SampleMetadata, SampleMetadata.filename,
                       process_resume(0, t).ret) : t \in QATexts}

InitQA ==
    /\ candidate \in QACandidates \cup {NoDocument}
    /\ question \in Questions
    /\ asked = NotAsked
    /\ NoExtract
    /\ InitServer

\* POST /ask/{candidate_id}: the handler, with what requests.post does
AskQuestion(outcome) ==
    /\ asked = NotAsked
    /\ asked' = [outcome |-> outcome] @@ ask_question(candidate, question, outcome)
    /\ UNCHANGED <<candidate, question>>
    /\ UNCHANGED <<extractVars, serverVars>>

NextQA == \E outcome \in HFOutcomes : AskQuestion(outcome)

SpecQA == InitQA /\ [][NextQA]_vars

(***************************************************************************)
(* Properties of the upload endpoint                                       *)
(***************************************************************************)
\* the position of the last dot of a filename, 0 when it has none
LastDot(filename) ==
    IF \E i \in 1..Len(filename) : filename[i] = "."
    THEN CHOOSE i \in 1..Len(filename) :
             /\ filename[i] = "."
             /\ \A j \in (i + 1)..Len(filename) : filename[j] # "."
    ELSE 0

\* the extension of a filename is neither pdf nor docx, whatever its case
Unsupported(filename) ==
    lower(SubSeq(filename, LastDot(filename) + 1, Len(filename)))
        \notin {<<"p","d","f">>, <<"d","o","c","x">>}

\* C6: a request whose filename has an extension (the part after the last
\* dot, whatever its case) other than pdf and docx ends with status 400 in
\* the step that receives it, none of upload_file, extract_text,
\* process_resume and insert_candidate is called for it, and the bucket,
\* the table, the collection and the MongoDB service are as they were
C6_UnsupportedIsRejectedBeforeProcessing ==
    [][\A r \in Reqs :
          uploads'[r].pc # "idle" /\ Unsupported(uploads'[r].filename)
              => /\ uploads'[r].pc = "done"
                 /\ uploads'[r].status = 400
                 /\ uploads'[r].called = <<>>
                 /\ uploads'[r] # uploads[r]
                        => UNCHANGED <<objects, rows, collection, mongo>>]_vars

\* a request for cv.pdf.txt and one for the dotless cv were rejected, while
\* the bucket holds the object of another request
C6_Witness ==
    \E r1, r2 \in Reqs :
        /\ uploads[r1].filename \in {<<"c","v",".","p","d","f",".","t","x","t">>,
                                     <<"c","v">>}
        /\ uploads[r1].pc = "done"
        /\ uploads[r1].status = 400
        /\ uploads[r2].status = 200
        /\ objects # {}

\* the request was answered with the candidate identifier of its upload
Assigned(r) == uploads[r].pc = "done" /\ uploads[r].status = 200

\* C7: no two uploads are assigned the same candidate identifier, two
\* uploads of one filename in one second of the clock with no id from the
\* table resume_files included
C7_CandidateIdsAreUnique ==
    \A r1, r2 \in Reqs :
        r1 # r2 /\ Assigned(r1) /\ Assigned(r2)
            => uploads[r1].metadata.id # uploads[r2].metadata.id

\* the steps of an upload, in the order of upload_resume
Steps == <<"upload_file", "extract_text", "process_resume", "insert_candidate">>

\* C16: in the step that answers an upload request, the calls made are a
\* start of the list upload_file, extract_text, process_resume,
\* insert_candidate and the bucket loses no object; the collection gets
\* one more document only when all four were called and the answer is 200,
\* and the candidate_id of that document is the id the upload of this
\* request returned, for an object the bucket holds; a request that fails at
\* the extraction or at the insert is answered 500, leaves the collection
\* as it was and leaves its object in the bucket.
C16_UploadStepsInOrder ==
    [][\A r \in Reqs :
          (uploads[r].pc = "reading" /\ uploads'[r].pc = "done")
              => /\ \E n \in 1..4 : uploads'[r].called = SubSeq(Steps, 1, n)
                 /\ objects \subseteq objects'
                 /\ uploads'[r].status \in {200, 500}
                 /\ uploads'[r].status = 200
                        => /\ uploads'[r].called = Steps
                           /\ Len(collection') = Len(collection) + 1
                           /\ SubSeq(collection', 1, Len(collection)) = collection
                           /\ collection'[Len(collection')].candidate_id
                                 = uploads'[r].metadata.id
                           /\ uploads'[r].metadata.file_path \in objects'
                 /\ uploads'[r].status = 500
                        => /\ collection' = collection
                           /\ Len(uploads'[r].called) >= 2
                                 => uploads'[r].metadata.file_path \in objects'
                           /\ Len(uploads'[r].called) = 1
                                 => /\ uploads'[r].metadata = NoMetadata
                                    /\ objects' = objects]_vars

\* one request failed at the insert and one at the extraction, each after
\* its upload: the collection is empty and the bucket holds both objects
C16_Witness ==
    \E r1, r2 \in Reqs :
        /\ uploads[r1].pc = "done" /\ uploads[r1].status = 500
        /\ uploads[r1].called = Steps
        /\ uploads[r2].pc = "done" /\ uploads[r2].status = 500
        /\ uploads[r2].called = SubSeq(Steps, 1, 2)
        /\ uploads[r1].metadata.file_path # uploads[r2].metadata.file_path
        /\ {uploads[r1].metadata.file_path, uploads[r2].metadata.file_path}
              \subseteq objects
        /\ collection = <<>>

(***************************************************************************)
(* Properties of the extraction pipeline                                   *)
(***************************************************************************)
ProfileFields ==
    {"education", "experience", "skills", "hobbies", "certifications",
     "projects", "introduction"}

\* C1: for every input text, the empty one included, process_resume returns
\* without raising a profile that has all seven fields, with at most 5
\* certifications, 5 projects and 5 hobbies, an introduction of at most 500
\* characters and, when education has a year, a year in 2000..2029.
C1_ProfileWithinBounds ==
    \A i \in 1..Len(runs) :
        /\ ~Raised(runs[i])
        /\ DOMAIN runs[i].ret = ProfileFields
        /\ Len(runs[i].ret.certifications) <= 5
        /\ Len(runs[i].ret.projects) <= 5
        /\ Len(runs[i].ret.hobbies) <= 5
        /\ Len(runs[i].ret.introduction) <= 500
        /\ "year" \in DOMAIN runs[i].ret.education
              => runs[i].ret.education.year \in 2000..2029

\* a text with seven hobbies on its hobby line and seven certification lines
\* was processed, and five of each were kept
C1_Witness ==
    /\ resume_text = Blocks[4] \o <<"\n">> \o Blocks[14]
    /\ Len(runs) > 0
    /\ runs[1].ret.hobbies = << <<"a">>, <<"b">>, <<"c">>, <<"d">>, <<"e">> >>
    /\ Len(runs[1].ret.certifications) = 5

\* C5: two runs of process_resume on the same text return the same profile,
\* the order of the skills list included.
C5_SameTextSameProfile == Len(runs) = 2 => runs[1] = runs[2]

\* the hobbies the claim C10 describes: on the first line with a hobby
\* keyword, all that follows the first colon, split on commas, trimmed, the
\* first 5; nothing when that line has no colon
ClaimedHobbies(text) ==
    LET lines == split(text, "\n")
        i == FirstMatch(hobby_keywords, lines)
    IN  IF i = 0 THEN <<>>
        ELSE IF ~Contains(<<":">>, lines[i]) THEN <<>>
        ELSE LET rest  == Slice(lines[i], find(lines[i], <<":">>) + 1, Len(lines[i]))
                 items == split(rest, ",")
             IN  Take([k \in 1..Len(items) |-> strip(items[k])], 5)

\* C10: the hobbies of a profile are the part of the first hobby line after
\* its first colon, the whole remainder, split on commas, trimmed, capped to
\* 5; empty when that line has no colon; later lines are not looked at.
C10_HobbiesAreRemainderAfterFirstColon ==
    \A i \in 1..Len(runs) :
        resume_text # None => runs[i].ret.hobbies = ClaimedHobbies(resume_text)

\* the text has none of the introduction keywords and no blank line
PlainText(text) ==
    /\ text # None
    /\ \A k \in 1..Len(intro_keywords) : ~Contains(intro_keywords[k], lower(text))
    /\ ~Contains(<<"\n", "\n">>, text)

\* C11, as stated: for a text with no introduction keyword and no blank
\* line, the introduction is the first 300 characters of the text, the whole
\* text when it is shorter, and nothing else is removed.
C11_FallbackIsFirst300 ==
    \A i \in 1..Len(runs) :
        PlainText(resume_text)
            => runs[i].ret.introduction = Take(resume_text, 300)

\* C11, amended: for such a text the introduction is the first 300
\* characters of the text, the whole text when it is shorter, without the
\* whitespace at their start and at their end.
C11_FallbackIsTrimmedFirst300 ==
    \A i \in 1..Len(runs) :
        PlainText(resume_text)
            => runs[i].ret.introduction = strip(Take(resume_text, 300))

\* a text of 302 characters whose 300th is a space was processed: the
\* introduction has 299 characters
C11_Witness ==
    /\ resume_text = [i \in 1..299 |-> "x"] \o <<" ", "y", "z">>
    /\ Len(runs) > 0
    /\ Len(runs[1].ret.introduction) = 299

\* the vocabulary tokens that occur in the text, whatever their case,
\* Title-cased
SkillsOfText(text) ==
    {title(common_skills[k]) :
        k \in {j \in 1..Len(common_skills) : Contains(common_skills[j], lower(text))}}

\* C12: the skills of a profile are, as a set, the Title-cased vocabulary
\* tokens that occur in the full text whatever their case: the window of
\* 500 characters after a skills keyword neither removes nor adds one, each
\* skill is listed once, and the list is empty when no token occurs.
C12_SkillsAreTokensOfFullText ==
    \A i \in 1..Len(runs) :
        resume_text # None
            => /\ {runs[i].ret.skills[k] : k \in 1..Len(runs[i].ret.skills)}
                      = SkillsOfText(resume_text)
               /\ Len(runs[i].ret.skills) = Cardinality(SkillsOfText(resume_text))

\* a text that names Git and Linux before its skills keyword and Python
\* twice after it was processed: the three skills and Sql are listed, once
C12_Witness ==
    /\ resume_text = Blocks[11] \o <<"\n">> \o Blocks[10]
    /\ Len(runs) > 0
    /\ Len(runs[1].ret.skills) = 4
    /\ \E k \in 1..4 : runs[1].ret.skills[k] = <<"G","i","t">>
    /\ \E k \in 1..4 : runs[1].ret.skills[k] = <<"P","y","t","h","o","n">>

\* C13: when a line of the text has an experience keyword, the experience
\* of the profile has the key title; the title is the trimmed line after the
\* first such line, and the empty string when that line is blank and when
\* the first such line is the last line of the text.
C13_ExperienceHasTitle ==
    \A i \in 1..Len(runs) :
        LET lines == split(resume_text, "\n")
            m     == FirstMatch(experience_keywords, lines)
        IN  (resume_text # None /\ m # 0)
                => /\ "title" \in DOMAIN runs[i].ret.experience
                   /\ runs[i].ret.experience.title =
                         IF m < Len(lines) THEN strip(lines[m + 1]) ELSE <<>>

\* the projects the claim C14 describes: of the 10 lines after the first
\* line with a project keyword, those longer than 10 characters when
\* trimmed, in the order of the text, the first 5
ClaimedProjects(text) ==
    LET lines == split(text, "\n")
        m     == FirstMatch(project_keywords, lines)
        window == {j \in 1..Len(lines) :
                      j > m /\ j <= m + 10 /\ Len(strip(lines[j])) > 10}
    IN  IF m = 0 THEN <<>>
        ELSE Take([k \in 1..Cardinality(window) |-> strip(lines[Nth(window, k)])], 5)

\* C14: the projects of a profile are the lines longer than 10 trimmed
\* characters among the 10 lines that follow the first line with a project
\* keyword, in the order of the text, until 5 are collected.
C14_ProjectsFromNextTenLines ==
    \A i \in 1..Len(runs) :
        resume_text # None => runs[i].ret.projects = ClaimedProjects(resume_text)

\* s without the first occurrence of the keyword kw, in whatever case it has
\* in s
WithoutKeyword(s, kw) ==
    LET i == find(lower(s), kw)
    IN  IF i < 0 THEN s ELSE Slice(s, 0, i) \o Slice(s, i + Len(kw), Len(s))

\* s without one occurrence of each of the introduction keywords from the
\* k-th on
RECURSIVE WithoutKeywords(_, _)
WithoutKeywords(s, k) ==
    IF k > Len(intro_keywords) THEN s
    ELSE WithoutKeywords(WithoutKeyword(s, intro_keywords[k]), k + 1)

\* the introduction the claim C15 describes for a text with a keyword
ClaimedIntroduction(text) ==
    LET K      == {k \in 1..Len(intro_keywords) :
                      Contains(intro_keywords[k], lower(text))}
        idx    == find(lower(text), intro_keywords[Nth(K, 1)])
        window == strip(Slice(text, idx, idx + 300))
        bare   == strip(WithoutKeywords(window, 1))
    IN  IF startswith(bare, <<":">>) THEN strip(Slice(bare, 1, Len(bare))) ELSE bare

\* C15: when the text has an introduction keyword, in whatever case, the
\* introduction is the window of 300 characters that starts at the first
\* keyword of the list summary, introduction, about, profile, objective that
\* occurs, without one occurrence of each keyword, the keyword the window
\* starts with included in the case it has in the text, then trimmed and
\* without one leading colon.
C15_IntroductionWithoutKeywords ==
    \A i \in 1..Len(runs) :
        (/\ resume_text # None
         /\ \E k \in 1..Len(intro_keywords) :
                Contains(intro_keywords[k], lower(resume_text)))
            => runs[i].ret.introduction = ClaimedIntroduction(resume_text)

(***************************************************************************)
(* Properties of the question endpoint                                     *)
(***************************************************************************)
\* the prompt of the question asked
AskedPrompt == _create_prompt(question, _prepare_context(candidate))

\* a question about a stored candidate was answered
Answered == asked # NotAsked /\ candidate # NoDocument

\* the inference call failed in a way that is handed to _fallback_answer
ViaFallback == Answered /\ asked.outcome.kind = "ConnectionError"

\* C2: for a stored candidate and any question, whatever requests.post does,
\* the question is answered with a string: nothing is raised to the caller,
\* the endpoint responds 200 with an answer.
C2_AlwaysAnAnswer ==
    Answered =>
        /\ asked.status = 200
        /\ "answer" \in DOMAIN asked
        /\ DOMAIN asked.answer = 1..Len(asked.answer)

\* the body of a 200 response was a list holding a number, which raises a
\* TypeError while it is decoded, and the question was answered
C2_Witness ==
    /\ Answered
    /\ asked.outcome = [kind |-> "response", status |-> 200, body |-> JList(<<JInt(42)>>)]
    /\ asked.status = 200
    /\ asked.answer = _fallback_answer(AskedPrompt)

C8_AnswerHoldsSkillsAsWritten ==
    (/\ ViaFallback
     /\ candidate.skills # <<>>
     /\ Contains(<<"s","k","i","l","l">>, lower(question))
     /\ ~Contains(<<"g","r","a","d","u","a","t">>, lower(AskedPrompt)))
        => Contains(join(<<",", " ">>, candidate.skills), asked.answer)

\* the 4-digit years 1900..2099 that stand in s as words of their own
YearsIn(s) ==
    LET M == {i \in 1..Len(s) : YearMatchAt(s, i)}
    IN  [k \in 1..Cardinality(M) |-> SubSeq(s, Nth(M, k), Nth(M, k) + 3)]

\* C9: when the prompt mentions graduation and education, the answer of the
\* fallback answerer tells the last 4-digit year of the prompt, with its four
\* digits, and is the not-available text when the prompt has no such year.
C9_AnswerTellsLastYear ==
    (/\ ViaFallback
     /\ Contains(<<"g","r","a","d","u","a","t">>, lower(AskedPrompt))
     /\ Contains(<<"e","d","u","c","a","t","i","o","n">>, lower(AskedPrompt)))
        => asked.answer =
              IF Len(YearsIn(AskedPrompt)) > 0
              THEN <<"T","h","e"," ","c","a","n","d","i","d","a","t","e"," ","f","i",
                     "n","i","s","h","e","d"," ","g","r","a","d","u","a","t","i","o",
                     "n"," ","i","n"," ">>
                   \o YearsIn(AskedPrompt)[Len(YearsIn(AskedPrompt))] \o <<".">>
              ELSE MsgNoGraduation

====
